---- MODULE Spec2Model ----
(***************************************************************************)
(* A model of h5.bluetooth.hci.inode (src/lib/index.js, the GSM-capable    *)
(* module at lines 1-921): the direct decoder decodeMsd, the GSM batch     *)
(* scanner decodeGsmData, the two dispatch tables and the registration     *)
(* hook registerManufacturerSpecificDataDecoder.                           *)
(*                                                                         *)
(* Conventions.                                                            *)
(*  - A Buffer is a sequence of bytes (0..255); the byte at JS offset i is *)
(*    buffer[i + 1].                                                       *)
(*  - A JS object is a function from field names to values; {} is EmptyObj.*)
(*  - A function that may throw returns a completion                       *)
(*    [thrown |-> BOOLEAN, msd |-> the container as the call left it].     *)
(*  - Date values are whole seconds since the epoch; fractional numbers    *)
(*    are kept as scaled integers (temperature and humidity in hundredths, *)
(*    lightLevel in tenths, batteryVoltage in millivolts, average and sum  *)
(*    as base-65536 integer part plus thousandths), computed in exact      *)
(*    arithmetic.                                                          *)
(***************************************************************************)
EXTENDS Integers, Sequences, FiniteSets, TLC

VARIABLES
  now,                  \* the wall clock read by new Date() / Date.now(), in seconds
  api,                  \* the entry point the caller uses: "decodeMsd",
                        \* "decodeGsmData" or "handler"
  calls,                \* the number of calls made so far
  callsLeft,            \* the number of calls the caller still makes
  buffer,               \* decodeMsd / handler: the buffer argument
  stmt,                 \* a field primitive called on its own: the call
                        \* statement, as a statement of a decoder body
  msdGiven,             \* decodeMsd: whether the caller passes a container
  msdBefore,            \* the caller's container before each call
  msdAfter,             \* the caller's container after the call
  ret,                  \* decodeMsd / handler: the completion of the call
  prevRet,              \* the completion of the call before, on the same arguments
  gsmTime,              \* decodeGsmData: the gsmTime argument
  gsmData,              \* decodeGsmData: the batch buffer
  pc,                   \* decodeGsmData: "idle", "loop" (at the loop test) or
                        \* "break" (left the loop by break, before the return)
  i,                    \* decodeGsmData: the cursor
  reports,              \* decodeGsmData: the reports array
  origins,              \* history: for each report, the batch offset of its record
  visited,              \* history: the cursor at the start of each iteration
  gsmRet,               \* decodeGsmData: [thrown, value] the call ended with
  prevGsmRet,           \* the completion of the call before, on the same batch
  eirDataTypeDecoders,  \* the ManufacturerSpecificData slot of the host's table
  trace                 \* history: the decoders the last handler call ran

vars == << now, api, calls, callsLeft, buffer, stmt, msdGiven, msdBefore, msdAfter, ret, prevRet,
           gsmTime, gsmData, pc, i, reports, origins, visited, gsmRet, prevGsmRet,
           eirDataTypeDecoders, trace >>

msdVars == << buffer, stmt, msdGiven, msdBefore, msdAfter, ret, prevRet >>
gsmVars == << gsmTime, gsmData, pc, i, reports, origins, visited, gsmRet, prevGsmRet >>
regVars == << eirDataTypeDecoders, trace >>

----------------------------------------------------------------------------
(* DeviceModel, src/lib/index.js:14-32 *)

Beacon == 128
EnergyMeter == 130
ControlId == 136
Nav == 137
CareSensor1 == 145
CareSensor2 == 146
CareSensor3 == 147
CareSensor4 == 148
CareSensor5 == 149
CareSensor6 == 150
CareSensorT == 154
CareSensorHT == 155
ControlPoint == 178
CareRelay == 179
TransceiverUart == 181
TransceiverUsb == 182
Gsm == 183

DeviceModel ==
  { Beacon, EnergyMeter, ControlId, Nav, CareSensor1, CareSensor2, CareSensor3,
    CareSensor4, CareSensor5, CareSensor6, CareSensorT, CareSensorHT,
    ControlPoint, CareRelay, TransceiverUart, TransceiverUsb, Gsm }

----------------------------------------------------------------------------
(* JavaScript values and Buffer reads *)

\* buffer[i] outside the buffer, and a missing argument.
Undefined == 0 - 1
\* The result of arithmetic on undefined (b1 * 0.0625 with b1 undefined).
NaN == 0 - 1000000
\* null (report.data[1].modelLabel before the decoder runs; a null callback).
Null == "null"

EmptyObj == [k \in {} |-> 0]

\* obj.k = v
Put(obj, k, v) == [f \in (DOMAIN obj) \cup {k} |-> IF f = k THEN v ELSE obj[f]]

Has(obj, k) == k \in DOMAIN obj

\* buffer[i]
At(buf, k) == IF k >= 0 /\ k < Len(buf) THEN buf[k + 1] ELSE Undefined

\* ToInt32 of a byte read, as the bitwise operators apply it: undefined is 0.
ToInt32(v) == IF v = Undefined THEN 0 ELSE v

\* (v & mask) !== 0 for a one-bit mask 2^bit
Bit(v, bit) == ((v \div (2 ^ bit)) % 2) = 1

\* Whether buf.readUIntXXLE(k) of `width` bytes stays inside the buffer; the
\* read throws a RangeError otherwise.
InRange(buf, k, width) == k >= 0 /\ k + width <= Len(buf)

readUInt16LE(buf, k) == buf[k + 1] + 256 * buf[k + 2]

\* readUInt32LE as two 16-bit words (the value is hi * 65536 + lo).
readUInt32LE(buf, k) == [hi |-> readUInt16LE(buf, k + 2), lo |-> readUInt16LE(buf, k)]

readInt8(buf, k) == IF buf[k + 1] >= 128 THEN buf[k + 1] - 256 ELSE buf[k + 1]

\* buf.slice(start, end) for 0 <= start, and end either >= 0 or negative
\* (counted from the end of the buffer).
slice(buf, start, end) ==
  LET n == Len(buf)
      e0 == IF end < 0 THEN n + end ELSE end
      e == IF e0 < 0 THEN 0 ELSE IF e0 > n THEN n ELSE e0
      s == IF start > n THEN n ELSE start
  IN IF e > s THEN SubSeq(buf, s + 1, e) ELSE << >>

\* Math.round(num / den) for den > 0: the nearest integer, halves upwards.
RoundDiv(num, den) == (2 * num + den) \div (2 * den)

----------------------------------------------------------------------------
(* Completions *)

Ok(msd) == [thrown |-> FALSE, msd |-> msd]
Throw(msd) == [thrown |-> TRUE, msd |-> msd]

----------------------------------------------------------------------------
(* Field primitives, src/lib/index.js:509-851.  Each takes the buffer, its  *)
(* offset(s) and the container, and returns a completion.                   *)

decodeInput(buf, k, msd) == Ok(Put(msd, "input", Bit(ToInt32(At(buf, k)), 3)))

decodeOutput(buf, k, msd) == Ok(Put(msd, "output", Bit(ToInt32(At(buf, k)), 0)))

decodeRtto(buf, k, msd) == Ok(Put(msd, "rtto", Bit(ToInt32(At(buf, k)), 1)))

decodeMagneticFieldDirection(buf, k, msd) ==
  Ok(Put(msd, "magneticFieldDirection", Bit(ToInt32(At(buf, k)), 3)))

\* The ten flags Object.assign adds when extendedI !== -1 (bit n of alarms).
ExtendedAlarms ==
  << "moveAccelerometer", "levelAccelerometer", "levelTemperature",
     "levelHumidity", "contactChange", "moveStopped", "moveGTimer",
     "levelAccelerometerChange", "levelMagnetChange", "levelMagnetTimer" >>

ExtendedAlarmNames == { ExtendedAlarms[n] : n \in DOMAIN ExtendedAlarms }

FlagBit(name) == (CHOOSE n \in DOMAIN ExtendedAlarms : ExtendedAlarms[n] = name) - 1

\* decodeAlarms as the earlier version of the module has it: the ten flags
\* are assigned whatever extendedI is.
decodeAlarmsAlways(buf, batteryI, extendedI, msd) ==
  IF extendedI # -1 /\ ~InRange(buf, extendedI, 2)
  THEN Throw(msd)
  ELSE
    LET byte == IF batteryI = -1 THEN 0 ELSE ToInt32(At(buf, batteryI))
        battery == IF Bit(byte, 2) THEN 32768 ELSE 0
        extended == IF extendedI = -1 THEN 0 ELSE readUInt16LE(buf, extendedI)
        alarms == IF Bit(extended, 15) THEN extended ELSE extended + battery
    IN Ok(Put(msd, "alarms",
              [f \in {"lowBattery"} \cup ExtendedAlarmNames |->
                 IF f = "lowBattery" THEN Bit(alarms, 15)
                 ELSE Bit(alarms, FlagBit(f))]))

decodeAlarms(buf, batteryI, extendedI, msd) ==
  IF extendedI # -1 /\ ~InRange(buf, extendedI, 2)
  THEN Throw(msd)
  ELSE
    LET byte == IF batteryI = -1 THEN 0 ELSE ToInt32(At(buf, batteryI))
        \* (byte << 13) & 0x8000
        battery == IF Bit(byte, 2) THEN 32768 ELSE 0
        extended == IF extendedI = -1 THEN 0 ELSE readUInt16LE(buf, extendedI)
        \* extended | battery
        alarms == IF Bit(extended, 15) THEN extended ELSE extended + battery
        low == [f \in {"lowBattery"} |-> Bit(alarms, 15)]
        all == [f \in {"lowBattery"} \cup ExtendedAlarmNames |->
                  IF f = "lowBattery" THEN Bit(alarms, 15)
                  ELSE Bit(alarms, FlagBit(f))]
    IN Ok(Put(msd, "alarms", IF extendedI # -1 THEN all ELSE low))

decodeGroups(buf, k, msd) ==
  IF ~InRange(buf, k, 2) THEN Throw(msd)
  ELSE Ok(Put(msd, "groups", readUInt16LE(buf, k) % 4096))

\* 10 * (Math.min(value, 11) - 1), or 100 for the code 1
BatteryLevel(value) ==
  IF value = 1 THEN 100 ELSE 10 * ((IF value < 11 THEN value ELSE 11) - 1)

\* (batteryLevel - 10) * 1.2 / 100 + 1.8, in millivolts
BatteryVoltage(level) == (level - 10) * 12 + 1800

decodeBatteryLevel(buf, k, shift, msd) ==
  IF ~InRange(buf, k, 2) THEN Throw(msd)
  ELSE
    LET value == (readUInt16LE(buf, k) \div (2 ^ shift)) % 16
        level == BatteryLevel(value)
    IN Ok(Put(Put(msd, "batteryLevel", level), "batteryVoltage", BatteryVoltage(level)))

\* Math.round(value / c * 1000) / 1000 for value = hi * 65536 + lo and c >= 1:
\* the integer part as two base-65536 digits, and the thousandths.
DivRound3(hi, lo, c) ==
  LET qh == hi \div c
      t == (hi % c) * 65536 + lo
      ql == t \div c
      m == RoundDiv(1000 * (t % c), c)
      ql1 == IF m = 1000 THEN ql + 1 ELSE ql
  IN [hi |-> IF ql1 = 65536 THEN qh + 1 ELSE qh,
      lo |-> IF ql1 = 65536 THEN 0 ELSE ql1,
      milli |-> IF m = 1000 THEN 0 ELSE m]

\* new Date(Date.now() - 24 * 3600 * 1000).getDay(), the clock in seconds, UTC
\* (1970-01-01 was a Thursday, day 4).
Yesterday == (4 + ((now - 86400) \div 86400)) % 7

\* The test with > for >=: a buffer that ends with the week data is taken
\* not to have it.
HasExtraDataStrict(buf, k) == Len(buf) > k + 2 + 4 + 2 + 1 + 2

\* buffer.length >= extraDataLength
HasExtraData(buf, k) == Len(buf) >= k + 2 + 4 + 2 + 1 + 2

\* The constant with the kWh/m3 default applied to every unit.
EnergyConstantKilo(unit, field) == IF field # 0 THEN field ELSE 1000

\* constant = options & 0x3FFF, replaced when it is 0 by the default of the
\* unit's branch.
EnergyConstant(unit, field) ==
  IF field # 0 THEN field
  ELSE IF unit = 0 \/ unit = 1 THEN 1000 ELSE 1

decodeEnergyMeter(buf, k, msd) ==
  IF ~InRange(buf, k + 6, 2) THEN Throw(msd)
  ELSE
    LET options == readUInt16LE(buf, k + 6)
        unit == (options \div 16384) % 4
        field == options % 16384
        constant == EnergyConstant(unit, field)
        averageUnit == IF unit = 0 THEN "kWh" ELSE IF unit = 1 THEN "m3" ELSE "cnt"
        sumUnit == IF unit = 0 THEN "kW" ELSE IF unit = 1 THEN "m3" ELSE "cnt"
        raw == 60 * readUInt16LE(buf, k)
        sum == readUInt32LE(buf, k + 2)
        m1 == Put(Put(Put(Put(msd, "averageUnit", averageUnit), "sumUnit", sumUnit),
                      "unit", unit), "constant", constant)
        m2 == Put(Put(m1, "average", DivRound3(raw \div 65536, raw % 65536, constant)),
                  "sum", DivRound3(sum.hi, sum.lo, constant))
    IN IF HasExtraData(buf, k)
       THEN
         LET c == decodeBatteryLevel(buf, k + 8, 4, m2)
             weekDataData == readUInt16LE(buf, k + 9)
         IN Ok(Put(Put(Put(c.msd,
                 "lightLevel", RoundDiv((At(buf, k + 8) % 16) * 1000, 15)),
                 "weekDay", weekDataData \div 8192),
                 "weekDayTotal", weekDataData % 8192))
       ELSE
         Ok(Put(Put(Put(Put(Put(m2,
              "batteryLevel", 100),
              "batteryVoltage", 2880),
              "lightLevel", 0),
              "weekDay", Yesterday),
              "weekDayTotal", 0))

\* The sign correction of a 5-bit two's complement field: x - (x & 0x10 ? 0x20 : 0)
CoordinateTwosComplement(x) == x - (IF Bit(x, 4) THEN 32 ELSE 0)

\* x - (x & 0x10 ? 0x1F : 0)
Coordinate(x) == x - (IF Bit(x, 4) THEN 31 ELSE 0)

decodeMotionSensor(buf, k, msd) ==
  IF ~InRange(buf, k, 2) THEN Throw(msd)
  ELSE
    LET value == readUInt16LE(buf, k)
    IN Ok(Put(msd, "position",
              [motion |-> Bit(value, 15),
               x |-> Coordinate((value \div 1024) % 32),
               y |-> Coordinate((value \div 32) % 32),
               z |-> Coordinate(value % 32)]))

Clamp(v, lo, hi) == IF v < lo THEN lo ELSE IF v > hi THEN hi ELSE v

\* The temperature in whole degrees.
decodeCsrTemperature(buf, k, msd) ==
  IF ~InRange(buf, k, 2) THEN Throw(msd)
  ELSE
    LET raw == readUInt16LE(buf, k)
        value == IF raw > 127 THEN raw - 8192 ELSE raw
    IN Ok(Put(msd, "temperature", Clamp(value, -30, 70)))

\* The temperature in hundredths of a degree; the value before rounding is
\* kept in sixteenths (b1 * 0.0625 + 16 * (b2 & 0x0F)).  A byte outside the
\* buffer makes b1 * 0.0625 (or the sum) NaN, which no comparison changes.
decodeMcp9844Temperature(buf, k, msd) ==
  LET b1 == At(buf, k)
      b2 == At(buf, k + 1)
      value == b1 + 256 * (ToInt32(b2) % 16) - (IF Bit(ToInt32(b2), 4) THEN 4096 ELSE 0)
  IN IF b1 = Undefined
     THEN Ok(Put(msd, "temperature", NaN))
     ELSE Ok(Put(msd, "temperature", RoundDiv(100 * Clamp(value, -480, 1120), 16)))

\* raw * 175.72 * 4 / 65536 - 46.85 in hundredths is
\* (raw * 4393 - 4685 * 4096) / 4096.
decodeSi7021Temperature(buf, k, msd) ==
  IF ~InRange(buf, k, 2) THEN Throw(msd)
  ELSE
    LET value == readUInt16LE(buf, k) * 4393 - 4685 * 4096
    IN Ok(Put(msd, "temperature", RoundDiv(Clamp(value, -3000 * 4096, 7000 * 4096), 4096)))

\* raw * 125 * 4 / 65536 - 6 in hundredths is (raw * 3125 - 600 * 4096) / 4096.
decodeSi7021Humidity(buf, k, msd) ==
  IF ~InRange(buf, k, 2) THEN Throw(msd)
  ELSE
    LET value == readUInt16LE(buf, k) * 3125 - 600 * 4096
    IN Ok(Put(msd, "humidity", RoundDiv(Clamp(value, 100 * 4096, 10000 * 4096), 4096)))

decodeMagneticField(buf, k, msd) ==
  IF ~InRange(buf, k, 2) THEN Throw(msd)
  ELSE Ok(Put(msd, "magneticField", readUInt16LE(buf, k)))

\* (word1 << 16) | word2 as the 32-bit signed integer the shift yields; the
\* Date is value * 1000 ms, kept in seconds.
decodeTime(buf, k, msd) ==
  IF ~InRange(buf, k, 2) \/ ~InRange(buf, k + 2, 2) THEN Throw(msd)
  ELSE
    LET word1 == readUInt16LE(buf, k)
        value1 == (IF word1 >= 32768 THEN word1 - 65536 ELSE word1) * 65536
        value2 == readUInt16LE(buf, k + 2)
    IN Ok(Put(msd, "time", value1 + value2))

decodeSignature(buf, k, msd) == Ok(Put(msd, "signature", slice(buf, k, k + 8)))

----------------------------------------------------------------------------
(* Decode recipes.  A decoder of the tables is the ordered list of the      *)
(* statements of its body; RunRecipe executes them in order and stops at    *)
(* the first one that throws, leaving the container as the statements       *)
(* before it wrote it.                                                      *)

Step(name, a, b) == [op |-> name, a |-> a, b |-> b, s |-> ""]
\* msd.model = DeviceModel.X
SetModel(model) == [op |-> "model", a |-> model, b |-> 0, s |-> ""]
\* msd.modelLabel = '...'
SetModelLabel(label) == [op |-> "modelLabel", a |-> 0, b |-> 0, s |-> label]

\* if (decodeX) { decodeX(buffer, k, msd); }
Optional(decodeX, k) == IF decodeX = Null THEN << >> ELSE << Step(decodeX, k, 0) >>

decodeGsmCareSensor(decodePosition, decodeValue1, decodeValue2) ==
  << Step("decodeAlarms", 0, 24),
     Step("groups", 0, 0),
     Step("batteryLevel", 100, 0),
     Step("batteryVoltage", 2880, 0) >>
  \o Optional(decodePosition, 26)
  \o Optional(decodeValue1, 28)
  \o Optional(decodeValue2, 30)
  \o << Step("now", 0, 0),
        Step("zeroSignature", 8, 0) >>

\* decodeMsdCareSensor with the last two statements of decodeGsmCareSensor
\* pasted in: msd.time = new Date() for decodeTime(buffer, 12, msd).
decodeMsdCareSensorNow(decodePosition, decodeValue1, decodeValue2) ==
  << Step("decodeAlarms", 0, 4),
     Step("decodeGroups", 2, 0),
     Step("decodeBatteryLevel", 2, 12) >>
  \o Optional(decodePosition, 6)
  \o Optional(decodeValue1, 8)
  \o Optional(decodeValue2, 10)
  \o << Step("now", 0, 0),
        Step("decodeSignature", 16, 0) >>

decodeMsdCareSensor(decodePosition, decodeValue1, decodeValue2) ==
  << Step("decodeAlarms", 0, 4),
     Step("decodeGroups", 2, 0),
     Step("decodeBatteryLevel", 2, 12) >>
  \o Optional(decodePosition, 6)
  \o Optional(decodeValue1, 8)
  \o Optional(decodeValue2, 10)
  \o << Step("decodeTime", 12, 0),
        Step("decodeSignature", 16, 0) >>

\* One statement of a decoder body.
ApplyStep(step, buf, msd) ==
  CASE step.op = "model" -> Ok(Put(msd, "model", step.a))
    [] step.op = "modelLabel" -> Ok(Put(msd, "modelLabel", step.s))
    [] step.op = "decodeRtto" -> decodeRtto(buf, step.a, msd)
    [] step.op = "decodeAlarms" -> decodeAlarms(buf, step.a, step.b, msd)
    [] step.op = "decodeGroups" -> decodeGroups(buf, step.a, msd)
    [] step.op = "decodeBatteryLevel" -> decodeBatteryLevel(buf, step.a, step.b, msd)
    [] step.op = "decodeEnergyMeter" ->
         \* step.b: the bytes buffer.slice(0, -b) drops; 0 passes the buffer itself
         decodeEnergyMeter(IF step.b = 0 THEN buf ELSE slice(buf, 0, 0 - step.b), step.a, msd)
    [] step.op = "decodeMotionSensor" -> decodeMotionSensor(buf, step.a, msd)
    [] step.op = "decodeCsrTemperature" -> decodeCsrTemperature(buf, step.a, msd)
    [] step.op = "decodeMcp9844Temperature" -> decodeMcp9844Temperature(buf, step.a, msd)
    [] step.op = "decodeSi7021Temperature" -> decodeSi7021Temperature(buf, step.a, msd)
    [] step.op = "decodeSi7021Humidity" -> decodeSi7021Humidity(buf, step.a, msd)
    [] step.op = "decodeMagneticField" -> decodeMagneticField(buf, step.a, msd)
    [] step.op = "decodeMagneticFieldDirection" -> decodeMagneticFieldDirection(buf, step.a, msd)
    [] step.op = "decodeInput" -> decodeInput(buf, step.a, msd)
    [] step.op = "decodeOutput" -> decodeOutput(buf, step.a, msd)
    [] step.op = "decodeTime" -> decodeTime(buf, step.a, msd)
    [] step.op = "decodeSignature" -> decodeSignature(buf, step.a, msd)
    \* the assignments of decodeGsmCareSensor
    [] step.op = "groups" -> Ok(Put(msd, "groups", step.a))
    [] step.op = "batteryLevel" -> Ok(Put(msd, "batteryLevel", step.a))
    [] step.op = "batteryVoltage" -> Ok(Put(msd, "batteryVoltage", step.a))
    [] step.op = "now" -> Ok(Put(msd, "time", now))
    [] step.op = "zeroSignature" -> Ok(Put(msd, "signature", [n \in 1..step.a |-> 0]))

RECURSIVE RunRecipe(_, _, _)
\* The rest of the body after a statement completed with c.
Continue(c, steps, buf) == IF c.thrown THEN c ELSE RunRecipe(steps, buf, c.msd)

RunRecipe(steps, buf, msd) ==
  IF Len(steps) = 0 THEN Ok(msd)
  ELSE Continue(ApplyStep(Head(steps), buf, msd), Tail(steps), buf)

\* msd.signature = buffer.slice(-8).fill(0) for new Buffer(8).fill(0): the
\* slice shares the buffer's memory, so the fill zeroes its last 8 bytes.
WritesFillInPlace(stmt1, buf) ==
  IF stmt1.op = "zeroSignature"
  THEN [k \in DOMAIN buf |-> IF k > Len(buf) - stmt1.a THEN 0 ELSE buf[k]]
  ELSE buf

\* The bytes of the buffer after one statement of a decoder body.  Every
\* statement only reads the buffer: decodeSignature stores a slice that
\* shares its memory without writing through it, and decodeGsmCareSensor
\* fills a Buffer of its own.
Writes(stmt1, buf) == buf

RECURSIVE BufferAfter(_, _, _)
\* The buffer after the statement that completed with c and the statements
\* that run after it.
WritesAfter(c, stmt1, steps, buf) ==
  IF c.thrown THEN buf ELSE BufferAfter(steps, Writes(stmt1, buf), c.msd)

\* The bytes of the buffer after the decoder body ran on it.
BufferAfter(steps, buf, msd) ==
  IF Len(steps) = 0 THEN buf
  ELSE WritesAfter(ApplyStep(Head(steps), buf, msd), Head(steps), Tail(steps), buf)

----------------------------------------------------------------------------
(* The dispatch tables, src/lib/index.js:123-352 *)

gsmDecoders ==
  (EnergyMeter :>
     << SetModelLabel("iNode Energy Meter"),
        Step("decodeRtto", 0, 0),
        Step("decodeAlarms", -1, -1),
        Step("decodeEnergyMeter", 24, 6) >>)
  @@ (CareSensor1 :>
     << SetModelLabel("iNode Care Sensor #1"), Step("decodeRtto", 0, 0) >>
     \o decodeMsdCareSensor("decodeMotionSensor", "decodeCsrTemperature", Null))
  @@ (CareSensor2 :>
     << SetModelLabel("iNode Care Sensor #2"), Step("decodeRtto", 0, 0) >>
     \o decodeMsdCareSensor("decodeMotionSensor", "decodeMcp9844Temperature", Null))
  @@ (CareSensor3 :>
     << SetModelLabel("iNode Care Sensor #3"), Step("decodeRtto", 0, 0) >>
     \o decodeMsdCareSensor("decodeMotionSensor", "decodeSi7021Temperature",
                            "decodeSi7021Humidity"))
  @@ (CareSensor4 :>
     << SetModelLabel("iNode Care Sensor #4"), Step("decodeRtto", 0, 0) >>
     \o decodeGsmCareSensor("decodeMotionSensor", "decodeCsrTemperature", Null)
     \o << Step("decodeInput", 0, 0) >>)
  @@ (CareSensor5 :>
     << SetModelLabel("iNode Care Sensor #5"), Step("decodeRtto", 0, 0) >>
     \o decodeGsmCareSensor("decodeMotionSensor", "decodeCsrTemperature",
                            "decodeMagneticField")
     \o << Step("decodeMagneticFieldDirection", 0, 0) >>)
  @@ (CareSensor6 :>
     << SetModelLabel("iNode Care Sensor #6"), Step("decodeRtto", 0, 0) >>
     \o decodeGsmCareSensor("decodeMotionSensor", "decodeCsrTemperature", Null)
     \o << Step("decodeInput", 0, 0), Step("decodeOutput", 0, 0) >>)
  @@ (CareSensorT :>
     << SetModelLabel("iNode Care Sensor T"), Step("decodeRtto", 0, 0) >>
     \o decodeGsmCareSensor(Null, "decodeMcp9844Temperature", Null))
  @@ (CareSensorHT :>
     << SetModelLabel("iNode Care Sensor HT"), Step("decodeRtto", 0, 0) >>
     \o decodeGsmCareSensor(Null, "decodeSi7021Temperature", "decodeSi7021Humidity"))

\* The body shared by the models that decode only rtto and the battery alarm.
Plain(model, label) ==
  << SetModel(model), SetModelLabel(label),
     Step("decodeRtto", 0, 0), Step("decodeAlarms", 0, -1) >>

\* A body pasted from the CareSensor1 entry with its model constant left in.
OpeningPasted(model, label) ==
  << SetModel(CareSensor1), SetModelLabel(label), Step("decodeRtto", 0, 0) >>

\* msd.model, msd.modelLabel and decodeRtto, which open every msdDecoders body.
Opening(model, label) ==
  << SetModel(model), SetModelLabel(label), Step("decodeRtto", 0, 0) >>

msdDecoders ==
  (Beacon :> Plain(Beacon, "iNode Beacon"))
  @@ (EnergyMeter :>
     Plain(EnergyMeter, "iNode Energy Meter") \o << Step("decodeEnergyMeter", 2, 0) >>)
  @@ (ControlId :> Plain(ControlId, "iNode Control ID"))
  @@ (Nav :> Plain(Nav, "iNode Nav"))
  @@ (CareSensor1 :>
     Opening(CareSensor1, "iNode Care Sensor #1")
     \o decodeMsdCareSensor("decodeMotionSensor", "decodeCsrTemperature", Null))
  @@ (CareSensor2 :>
     Opening(CareSensor2, "iNode Care Sensor #2")
     \o decodeMsdCareSensor("decodeMotionSensor", "decodeMcp9844Temperature", Null))
  @@ (CareSensor3 :>
     Opening(CareSensor3, "iNode Care Sensor #3")
     \o decodeMsdCareSensor("decodeMotionSensor", "decodeSi7021Temperature",
                            "decodeSi7021Humidity"))
  @@ (CareSensor4 :>
     Opening(CareSensor4, "iNode Care Sensor #4")
     \o decodeMsdCareSensor("decodeMotionSensor", "decodeCsrTemperature", Null)
     \o << Step("decodeInput", 0, 0) >>)
  @@ (CareSensor5 :>
     Opening(CareSensor5, "iNode Care Sensor #5")
     \o decodeMsdCareSensor("decodeMotionSensor", "decodeCsrTemperature",
                            "decodeMagneticField")
     \o << Step("decodeMagneticFieldDirection", 0, 0) >>)
  @@ (CareSensor6 :>
     Opening(CareSensor6, "iNode Care Sensor #6")
     \o decodeMsdCareSensor("decodeMotionSensor", "decodeCsrTemperature", Null)
     \o << Step("decodeInput", 0, 0), Step("decodeOutput", 0, 0) >>)
  @@ (CareSensorT :>
     Opening(CareSensorT, "iNode Care Sensor T")
     \o decodeMsdCareSensor(Null, "decodeMcp9844Temperature", Null))
  @@ (CareSensorHT :>
     Opening(CareSensorHT, "iNode Care Sensor HT")
     \o decodeMsdCareSensor(Null, "decodeSi7021Temperature", "decodeSi7021Humidity"))
  @@ (ControlPoint :> Plain(ControlPoint, "iNode Control Point"))
  @@ (CareRelay :>
     Plain(CareRelay, "iNode Care Relay") \o << Step("decodeOutput", 0, 0) >>)
  @@ (TransceiverUart :> Plain(TransceiverUart, "iNode Transceiver UART"))
  @@ (TransceiverUsb :> Plain(TransceiverUsb, "iNode Transceiver USB"))
  @@ (Gsm :> Plain(Gsm, "iNode GSM"))

----------------------------------------------------------------------------
(* The names of h5.bluetooth.hci the module uses, src/lib/index.js:7-9.     *)
(* Each enumerator stands for itself; its label is its name.                *)

EirDataType ==
  [ManufacturerSpecificData |-> "ManufacturerSpecificData",
   LocalNameComplete |-> "LocalNameComplete"]

AdvertisingReportEventType == [AdvInd |-> "AdvInd"]

AdvertisingReportAddressType == [Public |-> "Public"]

----------------------------------------------------------------------------
(* decodeMsd, src/lib/index.js:63-85 *)

\* decodeMsd without the throw of lines 68-71: a buffer of an unknown model is
\* let through and the container handed back as it came.
decodeMsdLenient(buf, given, msd) ==
  IF At(buf, 1) \notin DOMAIN msdDecoders
  THEN Ok(msd)
  ELSE RunRecipe(msdDecoders[At(buf, 1)], buf,
                 IF given THEN msd
                 ELSE [type |-> EirDataType.ManufacturerSpecificData,
                       typeLabel |-> EirDataType.ManufacturerSpecificData,
                       companyIdentifier |-> readUInt16LE(buf, 0)])

\* The completion of decodeMsd(buffer, msd); `given` tells whether the caller
\* passed a container.  .msd is the container as the call left it: the value
\* returned when nothing was thrown.
decodeMsd(buf, given, msd) ==
  LET deviceModel == At(buf, 1)
  IN IF deviceModel \notin DOMAIN msdDecoders
     THEN Throw(msd)
     ELSE
       LET container ==
             IF given THEN msd
             ELSE [type |-> EirDataType.ManufacturerSpecificData,
                   typeLabel |-> EirDataType.ManufacturerSpecificData,
                   companyIdentifier |-> readUInt16LE(buf, 0)]
       IN RunRecipe(msdDecoders[deviceModel], buf, container)

\* The bytes of the buffer after decodeMsd(buffer, msd).
decodeMsdWrites(buf, given, msd) ==
  IF At(buf, 1) \notin DOMAIN msdDecoders THEN buf
  ELSE BufferAfter(msdDecoders[At(buf, 1)], buf,
                   IF given THEN msd
                   ELSE [type |-> EirDataType.ManufacturerSpecificData,
                         typeLabel |-> EirDataType.ManufacturerSpecificData,
                         companyIdentifier |-> readUInt16LE(buf, 0)])

----------------------------------------------------------------------------
(* registerManufacturerSpecificDataDecoder, src/lib/index.js:37-55.         *)
(* The ManufacturerSpecificData slot of the host's table is the list of the *)
(* handlers installed in it so far, the current one last: "host" is a       *)
(* decoder of the host's own, "inode" a closure installed by a              *)
(* registration, whose originalDecoder is the handler before it in the      *)
(* list (undefined when there is none).                                     *)

\* The host's own decoder, of which only the call is known: it is recorded
\* and the container left as it is.
HostDecoder(buf, msd) ==
  [thrown |-> FALSE, msd |-> msd,
   trace |-> << [decoder |-> "host", buffer |-> buf, msd |-> msd] >>]

\* deviceModelDecoder(buffer, msd) called from the installed closure.
INodeDecoder(buf, msd) ==
  [thrown |-> RunRecipe(msdDecoders[At(buf, 1)], buf, msd).thrown,
   msd |-> RunRecipe(msdDecoders[At(buf, 1)], buf, msd).msd,
   trace |-> << [decoder |-> "inode", buffer |-> buf, msd |-> msd] >>]

Nothing(msd) == [thrown |-> FALSE, msd |-> msd, trace |-> << >>]

\* The two completions one after the other.
Both(a, b) ==
  [thrown |-> a.thrown \/ b.thrown, msd |-> b.msd, trace |-> a.trace \o b.trace]

\* The closure with `return` and `else` lost: after the iNode decoder it
\* goes on to the handler it replaced.
RECURSIVE HandlerFallThrough(_, _, _, _)
HandlerFallThrough(handlers, n, buf, msd) ==
  IF handlers[n] = "host" THEN HostDecoder(buf, msd)
  ELSE IF At(buf, 1) \in DOMAIN msdDecoders /\ n > 1
  THEN Both(INodeDecoder(buf, msd),
            HandlerFallThrough(handlers, n - 1, buf, INodeDecoder(buf, msd).msd))
  ELSE IF At(buf, 1) \in DOMAIN msdDecoders THEN INodeDecoder(buf, msd)
  ELSE IF n > 1 THEN HandlerFallThrough(handlers, n - 1, buf, msd)
  ELSE Nothing(msd)

\* The call handlers[n](buffer, msd).
RECURSIVE Handler(_, _, _, _)
Handler(handlers, n, buf, msd) ==
  IF handlers[n] = "host" THEN HostDecoder(buf, msd)
  ELSE IF At(buf, 1) \in DOMAIN msdDecoders THEN INodeDecoder(buf, msd)
  ELSE IF n > 1 THEN Handler(handlers, n - 1, buf, msd)
  ELSE Nothing(msd)

\* The bytes of the buffer after the installed handler ran on it; the
\* host's own decoder is taken to leave them alone.
HandlerWrites(buf, msd) ==
  IF At(buf, 1) \in DOMAIN msdDecoders
  THEN BufferAfter(msdDecoders[At(buf, 1)], buf, msd)
  ELSE buf

\* The slot after registerManufacturerSpecificDataDecoder(eirDataTypeDecoders).
registerManufacturerSpecificDataDecoder(handlers) == Append(handlers, "inode")

----------------------------------------------------------------------------
(* The GSM record decoder, src/lib/index.js:361-433 *)

HexDigits == << "0", "1", "2", "3", "4", "5", "6", "7",
                "8", "9", "A", "B", "C", "D", "E", "F" >>

\* n.toString(16).toUpperCase() for a byte
toStringHex(n) ==
  IF n < 16 THEN HexDigits[n + 1]
  ELSE HexDigits[(n \div 16) + 1] \o HexDigits[(n % 16) + 1]

\* The byte in hexadecimal without the '0' put before a single digit.
MacPartUnpadded(byte) == toStringHex(byte)

\* macAddress.push(...) for one byte
MacPart(byte) == (IF byte < 16 THEN "0" ELSE "") \o toStringHex(byte)

\* The bytes 7 down to 2, joined by ':'.
decodeGsmMacAddress(buf) ==
  MacPart(buf[8]) \o ":" \o MacPart(buf[7]) \o ":" \o MacPart(buf[6]) \o ":"
  \o MacPart(buf[5]) \o ":" \o MacPart(buf[4]) \o ":" \o MacPart(buf[3])

\* recordData.slice(8, 24).toString().replace(/\u0000/g, ''): the bytes of
\* the name without the NULs (the text is kept as its bytes).
LocalName(recordData) == SelectSeq(slice(recordData, 8, 24), LAMBDA b : b # 0)

\* The report literal of decodeGsmDataRecord, its data[1] being `entry`.
Report(recordData, entry) ==
  [eventType |-> AdvertisingReportEventType.AdvInd,
   eventTypeLabel |-> AdvertisingReportEventType.AdvInd,
   addressType |-> AdvertisingReportAddressType.Public,
   addressTypeLabel |-> AdvertisingReportAddressType.Public,
   address |-> decodeGsmMacAddress(recordData),
   length |-> -1,
   data |-> << [type |-> EirDataType.LocalNameComplete,
                typeLabel |-> EirDataType.LocalNameComplete,
                value |-> LocalName(recordData)],
               entry >>,
   rssi |-> readInt8(recordData, Len(recordData) - 4)]

\* data[1] of the report literal, before the decoder runs.
Entry(deviceModel) ==
  [type |-> EirDataType.ManufacturerSpecificData,
   typeLabel |-> EirDataType.ManufacturerSpecificData,
   model |-> deviceModel,
   modelLabel |-> Null]

\* return report, or the error the decoder threw: c is the completion of
\* deviceModelDecoder(recordData, report.data[1]).
Decoded(c, recordData) ==
  [thrown |-> c.thrown, some |-> ~c.thrown, report |-> Report(recordData, c.msd)]

\* [thrown, some, report]: some is FALSE for the null result.
decodeGsmDataRecord(time, recordType, recordData) ==
  IF At(recordData, 1) \notin DOMAIN gsmDecoders
  THEN [thrown |-> FALSE, some |-> FALSE, report |-> EmptyObj]
  ELSE IF Len(recordData) < 8
  THEN \* buffer[i].toString of undefined in decodeGsmMacAddress
       [thrown |-> TRUE, some |-> FALSE, report |-> EmptyObj]
  ELSE Decoded(RunRecipe(gsmDecoders[At(recordData, 1)], recordData,
                         Entry(At(recordData, 1))),
               recordData)

\* The try block without its catch clause: the decoder's error escapes.
TryCatchRethrow(r, reps) ==
  IF r.thrown THEN [thrown |-> TRUE, reports |-> reps]
  ELSE IF r.some THEN [thrown |-> FALSE, reports |-> Append(reps, r.report)]
  ELSE [thrown |-> FALSE, reports |-> reps]

\* The try block with reports.unshift(report) for reports.push(report).
TryCatchUnshift(r, reps) ==
  IF r.thrown THEN [thrown |-> FALSE, reports |-> reps]
  ELSE IF r.some THEN [thrown |-> FALSE, reports |-> << r.report >> \o reps]
  ELSE [thrown |-> FALSE, reports |-> reps]

\* The try block after decodeGsmDataRecord completed with r, and the catch
\* clause, which swallows every error.
TryCatch(r, reps) ==
  IF r.thrown THEN [thrown |-> FALSE, reports |-> reps]
  ELSE IF r.some THEN [thrown |-> FALSE, reports |-> Append(reps, r.report)]
  ELSE [thrown |-> FALSE, reports |-> reps]

\* [thrown, reports]: the reports array after the call, and whether the call
\* threw.
tryDecodeGsmDataRecord(time, recordType, recordData, reps) ==
  TryCatch(decodeGsmDataRecord(time, recordType, recordData), reps)

----------------------------------------------------------------------------
(* decodeGsmData, src/lib/index.js:92-118 *)

\* The state of the loop after tryDecodeGsmDataRecord completed with t.
AfterRecord(t, next) ==
  [i |-> next, reports |-> t.reports, brk |-> FALSE, thrown |-> t.thrown]

\* The iteration without the test of line 102: a short slice is decoded as
\* if it were the whole record.
FramedUnchecked(time, recordType, recordLength, recordData, j, reps) ==
  IF recordLength < 24
  THEN [i |-> j + recordLength, reports |-> reps, brk |-> FALSE, thrown |-> FALSE]
  ELSE AfterRecord(tryDecodeGsmDataRecord(time, recordType, recordData, reps),
                   j + recordLength)

\* The iteration without the test of line 109: a record shorter than the
\* GSM header is handed to the decoder.
FramedNoMinimum(time, recordType, recordLength, recordData, j, reps) ==
  IF Len(recordData) # recordLength
  THEN [i |-> j, reports |-> reps, brk |-> TRUE, thrown |-> FALSE]
  ELSE AfterRecord(tryDecodeGsmDataRecord(time, recordType, recordData, reps),
                   j + recordLength)

\* The iteration once recordData is sliced; j is the cursor after the header.
Framed(time, recordType, recordLength, recordData, j, reps) ==
  IF Len(recordData) # recordLength
  THEN [i |-> j, reports |-> reps, brk |-> TRUE, thrown |-> FALSE]
  ELSE IF recordLength < 24
  THEN [i |-> j + recordLength, reports |-> reps, brk |-> FALSE, thrown |-> FALSE]
  ELSE AfterRecord(tryDecodeGsmDataRecord(time, recordType, recordData, reps),
                   j + recordLength)

\* The iteration with recordLength read without the second i++: the length
\* byte is left under the cursor and counted as the first byte of the data.
LoopBodyOneIncrement(time, data, k, reps) ==
  IF At(data, k + 1) = Undefined
  THEN [i |-> k + 1, reports |-> reps, brk |-> TRUE, thrown |-> FALSE]
  ELSE Framed(time, At(data, k), At(data, k + 1),
              slice(data, k + 1, k + 1 + At(data, k + 1)), k + 1, reps)

\* One iteration of the for loop from cursor k: the cursor and the reports
\* after it, whether it left the loop by break, and whether it threw.
\* gsmData.slice(i, i + undefined) is slice(i, NaN), which is empty, and its
\* length 0 differs from undefined.
LoopBody(time, data, k, reps) ==
  IF At(data, k + 1) = Undefined
  THEN [i |-> k + 2, reports |-> reps, brk |-> TRUE, thrown |-> FALSE]
  ELSE Framed(time, At(data, k), At(data, k + 1),
              slice(data, k + 2, k + 2 + At(data, k + 1)), k + 2, reps)

\* data with the bytes from offset `at` on replaced by those of rec.
Splice(data, at, rec) ==
  [k \in DOMAIN data |-> IF k > at /\ k <= at + Len(rec) THEN rec[k - at] ELSE data[k]]

\* The bytes of recordData after decodeGsmDataRecord ran on it.
RecordWrites(recordData) ==
  IF At(recordData, 1) \in DOMAIN gsmDecoders /\ Len(recordData) >= 8
  THEN BufferAfter(gsmDecoders[At(recordData, 1)], recordData, Entry(At(recordData, 1)))
  ELSE recordData

\* The bytes of gsmData after the iteration from cursor k: recordData is a
\* slice of gsmData and shares its memory.
ScanWrites(data, k) ==
  IF At(data, k + 1) = Undefined THEN data
  ELSE IF Len(slice(data, k + 2, k + 2 + At(data, k + 1))) # At(data, k + 1) THEN data
  ELSE IF At(data, k + 1) < 24 THEN data
  ELSE Splice(data, k + 2, RecordWrites(slice(data, k + 2, k + 2 + At(data, k + 1))))

----------------------------------------------------------------------------
(* Bounds and inputs *)

\* The longest buffer handed to decodeMsd and to the handler.
MaxMsdLen == 24
\* The most records of a GSM batch (before its tail).
MaxRecords == 2
\* The most records of a GSM batch that is decoded twice.
MaxRepeatRecords == 1
\* The most clock ticks of a run.
MaxTicks == 2
\* The most calls made with the same arguments.
MaxCalls == 2
\* The most registrations of a run.
MaxRegistrations == 2

\* The clock at the start of a run, and the length of a tick (half a day).
StartTime == 20000 * 86400
TickSeconds == 12 * 3600

Fills == { "zeros", "ones", "ramp", "low", "spread" }

\* The byte a fill pattern puts at offset k.
Fill(f, k) ==
  CASE f = "zeros" -> 0
    [] f = "ones" -> 255
    [] f = "ramp" -> (k + 255) % 256
    [] f = "low" -> IF k % 2 = 0 THEN 21 ELSE 0
    [] f = "spread" -> (37 * k + 11) % 256

\* Model bytes of no table.
UnknownModels == { 0, 255 }

\* A direct-MSD buffer of `len` bytes with the model byte at offset 1.
MsdBuffer(model, len, f) == [k \in 1..len |-> IF k = 2 THEN model ELSE Fill(f, k - 1)]

\* The containers a caller passes to decodeMsd: the one the host codec
\* builds, and one that already holds decoded fields of an earlier frame.
Containers ==
  { [type |-> EirDataType.ManufacturerSpecificData,
     typeLabel |-> EirDataType.ManufacturerSpecificData],
    [type |-> EirDataType.ManufacturerSpecificData,
     typeLabel |-> EirDataType.ManufacturerSpecificData,
     model |-> Beacon, modelLabel |-> "iNode Beacon", rtto |-> FALSE] }

\* The records of the GSM batches: model byte and declared length.
RecordKinds ==
  { [model |-> CareSensor1, len |-> 0],
    [model |-> CareSensor1, len |-> 20],
    [model |-> EnergyMeter, len |-> 24],
    [model |-> EnergyMeter, len |-> 38],
    [model |-> EnergyMeter, len |-> 41],
    [model |-> CareSensor1, len |-> 24],
    [model |-> CareSensor1, len |-> 32],
    [model |-> CareSensor2, len |-> 24],
    [model |-> CareSensor3, len |-> 24],
    [model |-> CareSensor4, len |-> 24],
    [model |-> CareSensor4, len |-> 32],
    [model |-> CareSensor5, len |-> 32],
    [model |-> CareSensor6, len |-> 32],
    [model |-> CareSensorT, len |-> 26],
    [model |-> CareSensorT, len |-> 32],
    [model |-> CareSensorHT, len |-> 30],
    [model |-> CareSensorHT, len |-> 32],
    [model |-> Beacon, len |-> 24],
    [model |-> 0, len |-> 24] }

\* The data of the n-th record of a batch: the model byte at offset 1, n at
\* offset 2 (the last byte of its MAC address), the fill elsewhere.
RecordData(kind, f, n) ==
  [k \in 1..kind.len |-> IF k = 2 THEN kind.model ELSE IF k = 3 THEN n ELSE Fill(f, k - 1)]

\* recordType, recordLength, recordData
Record(kind, f, n) == << 1, kind.len >> \o RecordData(kind, f, n)

\* What follows the last whole record: nothing, a lone recordType byte, or a
\* record that declares 30 bytes and holds 10.
Tails == { << >>, << 1 >>, << 1, 30 >> \o [k \in 1..10 |-> k] }

RECURSIVE Concat(_, _, _)
Concat(kinds, f, n) ==
  IF n > Len(kinds) THEN << >>
  ELSE Record(kinds[n], f, n) \o Concat(kinds, f, n + 1)

Batch(kinds, f, tail) == Concat(kinds, f, 1) \o tail

----------------------------------------------------------------------------
(* The state machine.  The arguments of the calls are drawn by Init; a run  *)
(* calls one entry point with them, callsLeft times.                        *)

NoCompletion == Ok(EmptyObj)
NoStep == Step("", 0, 0)
NoReports == [thrown |-> FALSE, value |-> << >>]

\* The state before any call, with no arguments chosen.
Start ==
  /\ now = StartTime
  /\ calls = 0
  /\ msdAfter = EmptyObj
  /\ ret = NoCompletion
  /\ prevRet = NoCompletion
  /\ gsmTime = -1
  /\ pc = "idle"
  /\ i = 0
  /\ reports = << >>
  /\ origins = << >>
  /\ visited = << >>
  /\ gsmRet = NoReports
  /\ prevGsmRet = NoReports
  /\ trace = << >>

NoBuffer ==
  /\ buffer = << >>
  /\ stmt = NoStep
  /\ msdGiven = FALSE
  /\ msdBefore = EmptyObj

\* A caller of decodeMsd: the buffer, and the container if it passes one.
InitMsd(most) ==
  /\ Start
  /\ api = "decodeMsd"
  /\ callsLeft = most
  /\ \E model \in DeviceModel \cup UnknownModels, len \in 0..MaxMsdLen, f \in Fills :
       buffer = MsdBuffer(model, len, f)
  /\ stmt = NoStep
  /\ \/ msdGiven = FALSE /\ msdBefore = EmptyObj
     \/ msdGiven = TRUE /\ msdBefore \in Containers
  /\ gsmData = << >>
  /\ eirDataTypeDecoders = << >>

\* A caller of decodeGsmData: a batch of at most `records` records and a tail.
InitGsm(most, records) ==
  /\ Start
  /\ api = "decodeGsmData"
  /\ callsLeft = most
  /\ NoBuffer
  /\ \E m \in 0..records :
       \E kinds \in [1..m -> RecordKinds], f \in Fills, tail \in Tails :
         gsmData = Batch(kinds, f, tail)
  /\ eirDataTypeDecoders = << >>

\* The clock advances, at any moment.
Tick ==
  /\ now < StartTime + MaxTicks * TickSeconds
  /\ now' = now + TickSeconds
  /\ UNCHANGED << api, calls, callsLeft, msdVars, gsmVars, regVars >>

\* A call decodeMsd(buffer) or decodeMsd(buffer, msd), from entry to return
\* or throw; the caller passes a container equal to msdBefore each time.
DecodeMsd ==
  /\ api = "decodeMsd"
  /\ callsLeft > 0
  /\ \E c \in { decodeMsd(buffer, msdGiven, msdBefore) } :
        /\ ret' = c
        /\ msdAfter' = IF msdGiven THEN c.msd ELSE msdBefore
  /\ buffer' = decodeMsdWrites(buffer, msdGiven, msdBefore)
  /\ prevRet' = ret
  /\ calls' = calls + 1
  /\ callsLeft' = callsLeft - 1
  /\ UNCHANGED << now, api, stmt, msdGiven, msdBefore, gsmVars, regVars >>

\* Entry of decodeGsmData(gsmTime, gsmData): reports = [], i = 0.
EnterDecodeGsmData ==
  /\ api = "decodeGsmData"
  /\ pc = "idle"
  /\ callsLeft > 0
  /\ calls' = calls + 1
  /\ callsLeft' = callsLeft - 1
  /\ pc' = "loop"
  /\ i' = 0
  /\ reports' = << >>
  /\ origins' = << >>
  /\ visited' = << >>
  /\ gsmRet' = NoReports
  /\ prevGsmRet' = gsmRet
  /\ UNCHANGED << now, api, gsmTime, gsmData, msdVars, regVars >>

\* One iteration of the loop.  An error that escapes the iteration ends the
\* call.
ScanStep ==
  /\ pc = "loop"
  /\ i < Len(gsmData)
  /\ \E r \in { LoopBody(gsmTime, gsmData, i, reports) } :
        /\ i' = r.i
        /\ reports' = r.reports
        /\ origins' = IF Len(r.reports) > Len(reports) THEN Append(origins, i) ELSE origins
        /\ pc' = IF r.thrown THEN "idle" ELSE IF r.brk THEN "break" ELSE "loop"
        /\ gsmRet' = IF r.thrown THEN [thrown |-> TRUE, value |-> << >>] ELSE gsmRet
  /\ visited' = Append(visited, i)
  /\ gsmData' = ScanWrites(gsmData, i)
  /\ UNCHANGED << now, api, calls, callsLeft, gsmTime, prevGsmRet, msdVars, regVars >>

\* return reports, after the loop test fails or after the break.
GsmReturn ==
  /\ \/ pc = "loop" /\ i >= Len(gsmData)
     \/ pc = "break"
  /\ pc' = "idle"
  /\ gsmRet' = [thrown |-> FALSE, value |-> reports]
  /\ UNCHANGED << now, api, calls, callsLeft, gsmTime, gsmData, i, reports, origins,
                  visited, prevGsmRet, msdVars, regVars >>

\* A host codec with or without a ManufacturerSpecificData decoder of its
\* own, which hands every frame's buffer and the container it built to the
\* handler in the slot.
InitReg ==
  /\ Start
  /\ api = "handler"
  /\ callsLeft = 1
  /\ \E model \in DeviceModel \cup UnknownModels, len \in 0..MaxMsdLen, f \in Fills :
       buffer = MsdBuffer(model, len, f)
  /\ stmt = NoStep
  /\ msdGiven = TRUE
  /\ msdBefore \in Containers
  /\ gsmData = << >>
  /\ eirDataTypeDecoders \in { << >>, << "host" >> }

Registrations == Cardinality({ n \in DOMAIN eirDataTypeDecoders : eirDataTypeDecoders[n] = "inode" })

\* iNodeHci.registerManufacturerSpecificDataDecoder(btHci.decoders.eirDataType)
Register ==
  /\ api = "handler"
  /\ Registrations < MaxRegistrations
  /\ eirDataTypeDecoders' = registerManufacturerSpecificDataDecoder(eirDataTypeDecoders)
  /\ UNCHANGED << now, api, calls, callsLeft, msdVars, gsmVars, trace >>

\* The host decodes a frame once the module's handler is in the slot:
\* eirDataTypeDecoders[ManufacturerSpecificData](buffer, msd).
InvokeHandler ==
  /\ api = "handler"
  /\ callsLeft > 0
  /\ Registrations > 0
  /\ \E c \in { Handler(eirDataTypeDecoders, Len(eirDataTypeDecoders), buffer, msdBefore) } :
        /\ ret' = [thrown |-> c.thrown, msd |-> c.msd]
        /\ msdAfter' = c.msd
        /\ trace' = c.trace
  /\ buffer' = HandlerWrites(buffer, msdBefore)
  /\ prevRet' = ret
  /\ calls' = calls + 1
  /\ callsLeft' = callsLeft - 1
  /\ UNCHANGED << now, api, stmt, msdGiven, msdBefore, gsmVars, eirDataTypeDecoders >>

\* Every 16-bit word a field primitive can read.
Words == 0 .. 65535

\* The word after it, for the primitives that read two.
SecondWords(name) == IF name = "decodeTime" THEN { 0, 65535 } ELSE { 0 }

\* The little-endian bytes of a word.
Bytes(word) == << word % 256, word \div 256 >>

\* The field primitives that compute a number from a word, each as the call
\* statement that reads the word at offset 0 (decodeBatteryLevel with each of
\* the shifts the decoders pass; decodeEnergyMeter reads its options word at
\* offset 6).
FieldSteps ==
  { Step("decodeBatteryLevel", 0, 4), Step("decodeBatteryLevel", 0, 12),
    Step("decodeCsrTemperature", 0, 0), Step("decodeMcp9844Temperature", 0, 0),
    Step("decodeSi7021Temperature", 0, 0), Step("decodeSi7021Humidity", 0, 0),
    Step("decodeMotionSensor", 0, 0), Step("decodeTime", 0, 0),
    Step("decodeEnergyMeter", 0, 0) }

\* word at offsets 0 and 6, second at offsets 2 and 4.
FieldBuffer(word, second) == Bytes(word) \o Bytes(second) \o Bytes(second) \o Bytes(word)

\* A decoder body about to call one field primitive on a fresh container.
InitField ==
  /\ Start
  /\ api = "field"
  /\ callsLeft = 1
  /\ stmt \in FieldSteps
  /\ \E word \in Words : \E second \in SecondWords(stmt.op) :
       buffer = FieldBuffer(word, second)
  /\ msdGiven = TRUE
  /\ msdBefore = EmptyObj
  /\ gsmData = << >>
  /\ eirDataTypeDecoders = << >>

\* The call of the primitive, from entry to return or throw.
DecodeField ==
  /\ api = "field"
  /\ callsLeft > 0
  /\ \E c \in { ApplyStep(stmt, buffer, msdBefore) } :
        /\ ret' = c
        /\ msdAfter' = c.msd
  /\ buffer' = BufferAfter(<< stmt >>, buffer, msdBefore)
  /\ prevRet' = ret
  /\ calls' = calls + 1
  /\ callsLeft' = callsLeft - 1
  /\ UNCHANGED << now, api, stmt, msdGiven, msdBefore, gsmVars, regVars >>

SpecField == InitField /\ [][DecodeField]_vars

NextReg == Register \/ InvokeHandler

SpecReg == InitReg /\ [][NextReg]_vars

\* One call of decodeMsd per buffer and container, or one call of
\* decodeGsmData per batch.
NextDecode == DecodeMsd \/ EnterDecodeGsmData \/ ScanStep \/ GsmReturn

SpecDecode ==
  /\ InitMsd(1) \/ InitGsm(1, MaxRecords)
  /\ [][NextDecode]_vars

\* One call of each entry point: decodeMsd, decodeGsmData, or the handler
\* after its registrations.
NextCalls ==
  \/ DecodeMsd
  \/ EnterDecodeGsmData
  \/ ScanStep
  \/ GsmReturn
  \/ Register
  \/ InvokeHandler

SpecCalls ==
  /\ InitMsd(1) \/ InitGsm(1, MaxRecords) \/ InitReg
  /\ [][NextCalls]_vars

\* Repeated calls on the same arguments while the clock runs.
NextRepeat == DecodeMsd \/ EnterDecodeGsmData \/ ScanStep \/ GsmReturn \/ Tick

SpecRepeat ==
  /\ InitMsd(MaxCalls) \/ InitGsm(MaxCalls, MaxRepeatRecords)
  /\ [][NextRepeat]_vars

\* Every entry point.
Init ==
  \/ InitMsd(MaxCalls)
  \/ InitGsm(MaxCalls, MaxRepeatRecords)
  \/ InitReg
  \/ InitField

Next ==
  \/ DecodeMsd
  \/ EnterDecodeGsmData
  \/ ScanStep
  \/ GsmReturn
  \/ Register
  \/ InvokeHandler
  \/ DecodeField
  \/ Tick

Spec == Init /\ [][Next]_vars

----------------------------------------------------------------------------
(* Properties *)

\* The model byte of the buffer handed to decodeMsd or to the handler.
ModelByte == At(buffer, 1)

\* A call of decodeMsd has completed.
MsdDone == api = "decodeMsd" /\ calls > 0

\* C1: decodeMsd called with a buffer whose byte at offset 1 is no key of
\* msdDecoders throws, returns no record, and leaves a container the caller
\* passed exactly as it was before the call.
C1_UnknownModelThrows ==
  (MsdDone /\ ModelByte \notin DOMAIN msdDecoders)
    => /\ ret.thrown
       /\ msdAfter = msdBefore
       /\ ret.msd = msdBefore

\* A call with a two-byte-or-longer buffer of an unknown model and a container
\* that already holds fields has thrown.
C1_Witness ==
  /\ MsdDone
  /\ ModelByte = 255
  /\ msdGiven
  /\ Has(msdBefore, "model")
  /\ ret.thrown

\* The framing of a batch, as the record format defines it: a record at
\* offset k is one recordType byte, one recordLength byte and recordLength
\* bytes of data.
DeclaredLength(data, k) == data[k + 2]

FullyFramed(data, k) ==
  /\ k + 2 <= Len(data)
  /\ k + 2 + DeclaredLength(data, k) <= Len(data)

\* Bytes are left at k, but not a whole record.
Truncated(data, k) == k < Len(data) /\ ~FullyFramed(data, k)

RecordAt(data, k) == SubSeq(data, k + 3, k + 2 + DeclaredLength(data, k))

\* The offsets of the fully framed records of a batch, from offset k on.
RECURSIVE RecordStarts(_, _)
RecordStarts(data, k) ==
  IF FullyFramed(data, k)
  THEN {k} \cup RecordStarts(data, k + 2 + DeclaredLength(data, k))
  ELSE {}

\* The per-model decoder of gsmDecoders runs to its end on the record.
Decodes(rec) ==
  /\ At(rec, 1) \in DOMAIN gsmDecoders
  /\ ~RunRecipe(gsmDecoders[At(rec, 1)], rec, Entry(At(rec, 1))).thrown

\* A call of decodeGsmData has completed.
GsmDone == api = "decodeGsmData" /\ pc = "idle" /\ calls > 0

\* C2: when the scan of decodeGsmData meets a record whose recordLength byte
\* is missing or declares more bytes than remain, the scan stops there with
\* no report for it or for anything after it, and the call returns the
\* reports made before it without throwing.
C2_TruncatedRecordEndsScan ==
  [][/\ (pc = "loop" /\ Truncated(gsmData, i))
          => (pc' = "break" /\ reports' = reports)
     /\ pc = "break"
          => (pc' = "idle" /\ gsmRet' = [thrown |-> FALSE, value |-> reports])]_vars

\* A call has returned the report of a whole record after stopping at the
\* truncated record that followed it.
C2_Witness ==
  /\ GsmDone
  /\ Len(visited) > 1
  /\ Truncated(gsmData, visited[Len(visited)])
  /\ Len(gsmRet.value) > 0
  /\ ~gsmRet.thrown

\* C3: a fully framed record of an unknown model, or one whose decoder
\* throws, gets no report and does not end the scan: every fully framed
\* record the decoder can decode, before or after it, has its report in the
\* result, and decodeGsmData throws nothing.
C3_BadRecordIsSkipped ==
  GsmDone =>
    /\ ~gsmRet.thrown
    /\ \A k \in RecordStarts(gsmData, 0) :
         DeclaredLength(gsmData, k) >= 24 =>
           /\ Decodes(RecordAt(gsmData, k)) <=> (\E n \in DOMAIN origins : origins[n] = k)
           /\ Decodes(RecordAt(gsmData, k)) =>
                \E n \in DOMAIN gsmRet.value :
                  gsmRet.value[n].address = decodeGsmMacAddress(RecordAt(gsmData, k))

\* A call has returned exactly the report of a record that came after a
\* record of a known model whose decoder threw.
C3_Witness ==
  /\ GsmDone
  /\ Len(gsmRet.value) = 1
  /\ \E k1, k2 \in RecordStarts(gsmData, 0) :
       /\ k1 < k2
       /\ DeclaredLength(gsmData, k1) >= 24
       /\ At(RecordAt(gsmData, k1), 1) \in DOMAIN gsmDecoders
       /\ ~Decodes(RecordAt(gsmData, k1))
       /\ Decodes(RecordAt(gsmData, k2))
       /\ origins = << k2 >>

\* C4: a fully framed record that declares fewer than 24 bytes gets no
\* report, and the scan goes on at the record right after it: the cursor
\* moves by 2 + recordLength.
C4_ShortRecordIsSkipped ==
  [][(pc = "loop" /\ FullyFramed(gsmData, i) /\ DeclaredLength(gsmData, i) < 24)
       => /\ i' = i + 2 + DeclaredLength(gsmData, i)
          /\ reports' = reports
          /\ pc' = "loop"]_vars

\* A 20-byte record of a known model was stepped over and the record after
\* it reported.
C4_Witness ==
  /\ GsmDone
  /\ Len(visited) > 1
  /\ FullyFramed(gsmData, visited[1])
  /\ DeclaredLength(gsmData, visited[1]) = 20
  /\ At(RecordAt(gsmData, visited[1]), 1) \in DOMAIN gsmDecoders
  /\ visited[2] = visited[1] + 22
  /\ origins = << visited[2] >>

\* C5: the reports are in the order of their records in the batch, each
\* report made of one record and no record reported twice; the call returns
\* them in that order.
C5_ReportsInScanOrder ==
  api = "decodeGsmData" =>
    /\ Len(origins) = Len(reports)
    /\ \A n \in DOMAIN reports :
         /\ origins[n] \in RecordStarts(gsmData, 0)
         /\ reports[n].address = decodeGsmMacAddress(RecordAt(gsmData, origins[n]))
         /\ reports[n].data[2].model = At(RecordAt(gsmData, origins[n]), 1)
         /\ \A m \in DOMAIN reports : n < m => origins[n] < origins[m]
    /\ GsmDone => gsmRet.value = reports

\* A call has returned two reports, of two records with different addresses.
C5_Witness ==
  /\ GsmDone
  /\ Len(gsmRet.value) = 2
  /\ gsmRet.value[1].address # gsmRet.value[2].address

\* The host has called the handler the module installed.
HandlerDone == api = "handler" /\ calls > 0

\* C6: the handler installed by registerManufacturerSpecificDataDecoder, given
\* a buffer of a model of msdDecoders, runs that model's decoder once on the
\* buffer and the container and never the handler that was in the slot
\* before; given any other buffer it hands the same buffer and container to
\* the host's earlier handler exactly once, or does nothing when the slot
\* was empty.
C6_HandlerChains ==
  HandlerDone =>
    IF ModelByte \in DOMAIN msdDecoders
    THEN /\ trace = << [decoder |-> "inode", buffer |-> buffer, msd |-> msdBefore] >>
         /\ msdAfter = RunRecipe(msdDecoders[ModelByte], buffer, msdBefore).msd
    ELSE IF eirDataTypeDecoders[1] = "host"
    THEN /\ trace = << [decoder |-> "host", buffer |-> buffer, msd |-> msdBefore] >>
         /\ ~ret.thrown
    ELSE /\ trace = << >>
         /\ ~ret.thrown
         /\ msdAfter = msdBefore

\* After two registrations over a host handler, a frame of an unknown model
\* went to the host handler, once.
C6_Witness ==
  /\ HandlerDone
  /\ eirDataTypeDecoders = << "host", "inode", "inode" >>
  /\ ModelByte \notin DOMAIN msdDecoders
  /\ Len(trace) = 1
  /\ trace[1].decoder = "host"

\* The object without the fields `keys`.
Without(obj, keys) == [k \in (DOMAIN obj) \ keys |-> obj[k]]

\* The GSM models decoded by decodeGsmCareSensor.
GsmCareSensors == { CareSensor4, CareSensor5, CareSensor6, CareSensorT, CareSensorHT }

\* The fields of a direct-MSD record that are read from the clock: weekDay of
\* an energy-meter buffer that ends before the battery/light/week region
\* (offset 2 + 11).
MsdClockFields ==
  IF ModelByte = EnergyMeter /\ Len(buffer) < 13 THEN { "weekDay" } ELSE {}

\* The fields of the MSD entry of a GSM record that are read from the clock:
\* time of the decodeGsmCareSensor models, weekDay of an energy-meter record
\* whose data less its last 6 bytes ends before offset 24 + 11.
GsmClockFields(rec) ==
  IF At(rec, 1) \in GsmCareSensors THEN { "time" }
  ELSE IF At(rec, 1) = EnergyMeter /\ Len(rec) - 6 < 35 THEN { "weekDay" }
  ELSE {}

\* The n-th report of a result without the clock fields of its MSD entry.
Scrub(value, n) ==
  [value[n] EXCEPT !.data[2] = Without(@, GsmClockFields(RecordAt(gsmData, origins[n])))]

\* The statement of C7 as it was made: a second call on the same buffer
\* returns a result equal to the first in every field.
C7_SameBufferSameResult ==
  /\ (MsdDone /\ calls >= 2) => ret = prevRet
  /\ (GsmDone /\ calls >= 2) => gsmRet = prevGsmRet

\* C7: two calls of decodeMsd with equal buffers, and two calls of
\* decodeGsmData with equal batches, agree on throwing and in every field of
\* their results but the ones read from the clock: time of the GSM records of
\* CareSensor4, 5, 6, T and HT, and weekDay of an energy-meter record that
\* ends before its battery/light/week region.
C7_SameBufferSameResultButClock ==
  /\ (MsdDone /\ calls >= 2) =>
       /\ ret.thrown = prevRet.thrown
       /\ Without(ret.msd, MsdClockFields) = Without(prevRet.msd, MsdClockFields)
  /\ (GsmDone /\ calls >= 2) =>
       /\ gsmRet.thrown = prevGsmRet.thrown
       /\ Len(gsmRet.value) = Len(prevGsmRet.value)
       /\ \A n \in DOMAIN gsmRet.value :
            Scrub(gsmRet.value, n) = Scrub(prevGsmRet.value, n)

\* Two calls on the same one-record batch returned reports that differ.
C7_Witness ==
  /\ GsmDone
  /\ calls >= 2
  /\ Len(gsmRet.value) = 1
  /\ Len(prevGsmRet.value) = 1
  /\ gsmRet # prevGsmRet

\* The fields the decoder of a model writes when it runs to its end.
RecipeFields(model) ==
  DOMAIN RunRecipe(msdDecoders[model], [k \in 1..32 |-> 0], EmptyObj).msd

\* C8: for a buffer of a model of msdDecoders, decodeMsd either returns a
\* container with every field of the model's decoder or throws with the
\* caller's container as it was before the call.
C8_NeverPartial ==
  (MsdDone /\ ModelByte \in DOMAIN msdDecoders) =>
    IF ret.thrown
    THEN msdAfter = msdBefore
    ELSE RecipeFields(ModelByte) \subseteq DOMAIN ret.msd

\* The string of the msd.modelLabel assignment of a decoder body.
LabelOf(recipe) ==
  recipe[CHOOSE n \in DOMAIN recipe : recipe[n].op = "modelLabel"].s

\* C9: a record decodeMsd returns, and the MSD entry of a report of
\* decodeGsmData, has the model byte that selected its decoder as model and a
\* non-empty modelLabel, which is the label the other table gives the model
\* when it has it.
C9_ModelAndLabel ==
  /\ (MsdDone /\ ~ret.thrown) =>
       /\ ret.msd.model = ModelByte
       /\ ret.msd.modelLabel \notin { Null, "" }
       /\ ModelByte \in DOMAIN gsmDecoders =>
            ret.msd.modelLabel = LabelOf(gsmDecoders[ModelByte])
  /\ api = "decodeGsmData" =>
       \A n \in DOMAIN reports :
         /\ reports[n].data[2].model = At(RecordAt(gsmData, origins[n]), 1)
         /\ reports[n].data[2].modelLabel \notin { Null, "" }
         /\ reports[n].data[2].model \in DOMAIN msdDecoders =>
              reports[n].data[2].modelLabel = LabelOf(msdDecoders[reports[n].data[2].model])

\* decodeMsd returned a record of a model of both tables into a container
\* that held another model before.
C9_Witness ==
  /\ MsdDone
  /\ ~ret.thrown
  /\ ModelByte \in DOMAIN gsmDecoders
  /\ msdGiven
  /\ Has(msdBefore, "model")
  /\ msdBefore.model # ModelByte

\* The extended-alarms offset a decoder body passes to decodeAlarms.
ExtendedOffset(recipe) ==
  recipe[CHOOSE n \in DOMAIN recipe : recipe[n].op = "decodeAlarms"].b

\* alarms of the record has lowBattery, and the ten extended flags when the
\* offset is not -1, none of them when it is.
AlarmsFit(msd, extendedI) ==
  /\ Has(msd, "alarms")
  /\ "lowBattery" \in DOMAIN msd.alarms
  /\ IF extendedI # -1
     THEN ExtendedAlarmNames \subseteq DOMAIN msd.alarms
     ELSE ExtendedAlarmNames \cap DOMAIN msd.alarms = {}

\* C10: every record decoded by a decoder of msdDecoders or gsmDecoders has
\* alarms.lowBattery, and has the ten extended flags exactly when its decoder
\* passes decodeAlarms an extended-alarms offset other than -1.
C10_AlarmFlags ==
  /\ (MsdDone /\ ~ret.thrown) =>
       AlarmsFit(ret.msd, ExtendedOffset(msdDecoders[ModelByte]))
  /\ api = "decodeGsmData" =>
       \A n \in DOMAIN reports :
         AlarmsFit(reports[n].data[2],
                   ExtendedOffset(gsmDecoders[reports[n].data[2].model]))

\* A batch gave a report with the extended flags and one with lowBattery
\* alone.
C10_Witness ==
  /\ GsmDone
  /\ Len(gsmRet.value) = 2
  /\ ExtendedAlarmNames \subseteq DOMAIN gsmRet.value[1].data[2].alarms
  /\ DOMAIN gsmRet.value[2].data[2].alarms = { "lowBattery" }

\* A field primitive called on its own has returned.
FieldDone == api = "field" /\ calls > 0 /\ ~ret.thrown

\* C11: for every 4-bit battery code and both shifts, the batteryLevel a
\* record carries is one of 0, 10, 20, ..., 100.
C11_BatteryLevelInSteps ==
  (FieldDone /\ Has(ret.msd, "batteryLevel"))
    => ret.msd.batteryLevel \in { 10 * n : n \in 0 .. 10 }

\* The units a decoder body's temperature is kept in, per degree: whole
\* degrees for the CSR encoding, hundredths for the MCP9844 and Si7021 ones.
TemperatureScale(recipe) ==
  IF \E n \in DOMAIN recipe : recipe[n].op = "decodeCsrTemperature" THEN 1 ELSE 100

\* temperature within [-30, 70] and humidity within [1, 100], where present.
ClimateInRange(msd, recipe) ==
  /\ Has(msd, "temperature") =>
       /\ msd.temperature >= (0 - 30) * TemperatureScale(recipe)
       /\ msd.temperature <= 70 * TemperatureScale(recipe)
  /\ Has(msd, "humidity") =>
       /\ msd.humidity >= 100
       /\ msd.humidity <= 10000

\* C12: the temperature of every decoded record lies in [-30, 70], whatever
\* the encoding, and its Si7021 humidity in [1, 100].
C12_ClimateClamped ==
  /\ (MsdDone /\ ~ret.thrown) => ClimateInRange(ret.msd, msdDecoders[ModelByte])
  /\ api = "decodeGsmData" =>
       \A n \in DOMAIN reports :
         ClimateInRange(reports[n].data[2], gsmDecoders[reports[n].data[2].model])

\* The word a field primitive reads at offset 0, and its 5-bit field that
\* starts at bit `low`.
WordRead == buffer[1] + 256 * buffer[2]

Field5(low) == (WordRead \div (2 ^ low)) % 32

\* A 5-bit field as a coordinate: itself below 16, itself less 31 from 16 on.
Corrected(f) == IF f < 16 THEN f ELSE f - 31

MotionDone == FieldDone /\ stmt.op = "decodeMotionSensor"

\* C13: for every 16-bit motion word, decodeMotionSensor sets motion to bit
\* 15 and x, y, z to the 5-bit fields at bits 10-14, 5-9 and 0-4, each less
\* 31 when its bit 4 is set, so each coordinate lies in -15..15.
C13_MotionVector ==
  MotionDone =>
    /\ ret.msd.position.motion = (WordRead >= 32768)
    /\ ret.msd.position.x = Corrected(Field5(10))
    /\ ret.msd.position.y = Corrected(Field5(5))
    /\ ret.msd.position.z = Corrected(Field5(0))
    /\ \A c \in { "x", "y", "z" } : ret.msd.position[c] \in -15 .. 15

\* The word with x = 0x10, y = 0x0F and z = 0x1F decoded to -15, 15, 0, with
\* the motion bit set.
C13_Witness ==
  /\ MotionDone
  /\ Field5(10) = 16 /\ Field5(5) = 15 /\ Field5(0) = 31
  /\ WordRead >= 32768
  /\ ret.msd.position = [motion |-> TRUE, x |-> -15, y |-> 15, z |-> 0]

\* The options word decodeEnergyMeter reads at offset 6.
OptionsRead == buffer[7] + 256 * buffer[8]

EnergyDone == FieldDone /\ stmt.op = "decodeEnergyMeter"

\* C14: for every 16-bit options word, unit is bits 14-15 and constant the
\* low 14 bits, a zero constant field being replaced by 1000 for the units 0
\* and 1 and by 1 for the units 2 and 3; the labels are kWh/kW for unit 0 and
\* cnt/cnt for the units 2 and 3; so the constant that average and sum are
\* divided by is at least 1.
C14_EnergyOptions ==
  EnergyDone =>
    /\ ret.msd.unit = OptionsRead \div 16384
    /\ ret.msd.constant =
         IF OptionsRead % 16384 # 0 THEN OptionsRead % 16384
         ELSE IF ret.msd.unit \in { 0, 1 } THEN 1000
         ELSE 1
    /\ ret.msd.unit = 0 => (ret.msd.averageUnit = "kWh" /\ ret.msd.sumUnit = "kW")
    /\ ret.msd.unit \in { 2, 3 } => (ret.msd.averageUnit = "cnt" /\ ret.msd.sumUnit = "cnt")
    /\ ret.msd.constant >= 1
    /\ Has(ret.msd, "average") /\ Has(ret.msd, "sum")

\* The options word 0x8000 (unit 2, constant field 0) decoded to the
\* constant 1 with the cnt labels.
C14_Witness ==
  /\ EnergyDone
  /\ OptionsRead = 32768
  /\ ret.msd.unit = 2
  /\ ret.msd.constant = 1
  /\ ret.msd.averageUnit = "cnt"

\* A byte as exactly two uppercase hexadecimal digits.
TwoHex(byte) == HexDigits[(byte \div 16) + 1] \o HexDigits[(byte % 16) + 1]

\* The bytes of a record at indices 7, 6, 5, 4, 3, 2, each as two digits,
\* joined by colons.
MacOf(rec) ==
  TwoHex(rec[8]) \o ":" \o TwoHex(rec[7]) \o ":" \o TwoHex(rec[6]) \o ":"
  \o TwoHex(rec[5]) \o ":" \o TwoHex(rec[4]) \o ":" \o TwoHex(rec[3])

\* C15: the address of every report is the six bytes of its record at
\* indices 7 down to 2, each as exactly two uppercase hexadecimal digits,
\* joined by colons.
C15_MacAddress ==
  api = "decodeGsmData" =>
    \A n \in DOMAIN reports :
      reports[n].address = MacOf(RecordAt(gsmData, origins[n]))

\* A record with the bytes 0x01..0x06 at indices 2..7 was reported with the
\* address "06:05:04:03:02:01".
C15_Witness ==
  /\ GsmDone
  /\ Len(gsmRet.value) > 0
  /\ SubSeq(RecordAt(gsmData, origins[1]), 3, 8) = << 1, 2, 3, 4, 5, 6 >>
  /\ gsmRet.value[1].address = "06:05:04:03:02:01"

\* C16: no call of decodeMsd, of decodeGsmData or of the registered handler
\* changes a byte of the buffer it is given, for any model and either
\* transport.
C16_BuffersUnchanged ==
  [][buffer' = buffer /\ gsmData' = gsmData]_vars

\* A batch gave two reports: one whose signature shares bytes 16..23 of its
\* record, which are not zeros, and one with a zeroed signature of its own
\* for a record that ends in 0xFF.
C16_Witness ==
  /\ GsmDone
  /\ Len(gsmRet.value) = 2
  /\ \A n \in 1 .. 2 : Has(gsmRet.value[n].data[2], "signature")
  /\ gsmRet.value[1].data[2].signature = SubSeq(RecordAt(gsmData, origins[1]), 17, 24)
  /\ gsmRet.value[1].data[2].signature = << 255, 255, 255, 255, 255, 255, 255, 255 >>
  /\ gsmRet.value[2].data[2].signature = << 0, 0, 0, 0, 0, 0, 0, 0 >>
  /\ gsmData[Len(gsmData)] = 255

\* The CareSensor models of gsmDecoders.
GsmCareSensorModels ==
  { CareSensor1, CareSensor2, CareSensor3, CareSensor4, CareSensor5, CareSensor6,
    CareSensorT, CareSensorHT }

\* The MSD entry holds the alarms of the word at record offset 24 and, when
\* it has a position, the position of the word at offset 26.
AtGsmOffsets(entry, rec) ==
  /\ InRange(rec, 24, 2)
  /\ entry.alarms = decodeAlarms(rec, 0, 24, EmptyObj).msd.alarms
  /\ Has(entry, "position") =>
       /\ InRange(rec, 26, 2)
       /\ entry.position = decodeMotionSensor(rec, 26, EmptyObj).msd.position

\* C17: every CareSensor model of gsmDecoders decodes its record at the GSM
\* offsets: the extended alarms from the word at offset 24 and the position,
\* when the model has one, from the word at offset 26.
C17_GsmOffsets ==
  api = "decodeGsmData" =>
    \A n \in DOMAIN reports :
      reports[n].data[2].model \in GsmCareSensorModels =>
        AtGsmOffsets(reports[n].data[2], RecordAt(gsmData, origins[n]))

\* The container holds what the bytes at offsets k + 8 .. k + 10 of buf
\* encode: the battery code (high nibble of the byte at k + 8), the light
\* level (its low nibble) and the week data (the word at k + 9).
ExtraDecoded(msd, buf, k) ==
  /\ msd.batteryLevel = BatteryLevel(buf[k + 9] \div 16)
  /\ msd.lightLevel = RoundDiv((buf[k + 9] % 16) * 1000, 15)
  /\ msd.weekDay = (buf[k + 10] + 256 * buf[k + 11]) \div 8192
  /\ msd.weekDayTotal = (buf[k + 10] + 256 * buf[k + 11]) % 8192

\* The container holds the defaults of the branch without the extra data.
ExtraDefaults(msd) ==
  /\ \A f \in { "batteryLevel", "batteryVoltage", "lightLevel", "weekDayTotal" } : Has(msd, f)
  /\ msd.batteryLevel = 100
  /\ msd.batteryVoltage = 2880
  /\ msd.lightLevel = 0
  /\ msd.weekDayTotal = 0

\* The container holds none of the fields of either branch.
ExtraAbsent(msd) ==
  \A f \in { "batteryLevel", "batteryVoltage", "lightLevel", "weekDay", "weekDayTotal" } :
    ~Has(msd, f)

\* The record of a GSM report without its last 6 bytes.
Less6(rec) == SubSeq(rec, 1, Len(rec) - 6)

\* A call of decodeMsd on an energy-meter buffer has completed.
EnergyMsdDone == MsdDone /\ ModelByte = EnergyMeter

\* The statement of C18 as it was made: the battery, light and week fields
\* are decoded from the buffer when it has at least i + 11 bytes, and are
\* the defaults for every shorter buffer.
C18_ExtraOrDefaults ==
  /\ EnergyMsdDone =>
       IF Len(buffer) >= 2 + 11
       THEN ~ret.thrown /\ ExtraDecoded(ret.msd, buffer, 2)
       ELSE ExtraDefaults(ret.msd)
  /\ api = "decodeGsmData" =>
       \A n \in DOMAIN reports :
         reports[n].data[2].model = EnergyMeter =>
           IF Len(Less6(RecordAt(gsmData, origins[n]))) >= 24 + 11
           THEN ExtraDecoded(reports[n].data[2], Less6(RecordAt(gsmData, origins[n])), 24)
           ELSE ExtraDefaults(reports[n].data[2])

\* C18: decodeEnergyMeter with base offset i (2 for decodeMsd, 24 on the GSM
\* record less its last 6 bytes) decodes battery code, light level and week
\* data from the bytes at i + 8 .. i + 10, all inside the buffer, exactly
\* when the buffer has at least i + 11 bytes; it writes the defaults when the
\* buffer has at least i + 8 bytes but fewer than i + 11; and on a buffer
\* shorter than i + 8 it throws and writes none of these fields.
C18_ExtraDefaultsOrThrow ==
  /\ EnergyMsdDone =>
       IF Len(buffer) >= 2 + 11
       THEN ~ret.thrown /\ ExtraDecoded(ret.msd, buffer, 2)
       ELSE IF Len(buffer) >= 2 + 8
       THEN ~ret.thrown /\ ExtraDefaults(ret.msd)
       ELSE ret.thrown /\ ExtraAbsent(ret.msd)
  /\ api = "decodeGsmData" =>
       \A n \in DOMAIN reports :
         reports[n].data[2].model = EnergyMeter =>
           IF Len(Less6(RecordAt(gsmData, origins[n]))) >= 24 + 11
           THEN ExtraDecoded(reports[n].data[2], Less6(RecordAt(gsmData, origins[n])), 24)
           ELSE /\ Len(Less6(RecordAt(gsmData, origins[n]))) >= 24 + 8
                /\ ExtraDefaults(reports[n].data[2])

\* decodeMsd decoded week data from an energy-meter buffer of exactly 13
\* bytes.
C18_Witness ==
  /\ EnergyMsdDone
  /\ Len(buffer) = 13
  /\ ~ret.thrown
  /\ ret.msd.weekDayTotal = (buffer[12] + 256 * buffer[13]) % 8192
  /\ ret.msd.weekDayTotal # 0


\* The second 16-bit little-endian word of the buffer of a field call.
SecondWordRead == buffer[3] + 256 * buffer[4]

\* C19: decodeTime stores the 32-bit count word1 * 65536 + word2 of seconds
\* since the epoch, which is never before the epoch, also when bit 15 of
\* word1 is set.  The count is stated by its two halves: its quotient by
\* 65536 is word1 and its remainder is word2.
C19_TimeFromEpoch ==
  FieldDone /\ stmt.op = "decodeTime" =>
    /\ ret.msd.time >= 0
    /\ ret.msd.time \div 65536 = WordRead
    /\ ret.msd.time % 65536 = SecondWordRead


\* The scan is in its loop or has left it, with at least one iteration done.
Scanning == api = "decodeGsmData" /\ Len(visited) > 0

\* The cursor at the start of the n-th iteration, and after the last one.
CursorAfter(n) == IF n < Len(visited) THEN visited[n + 1] ELSE i

\* C20: decodeGsmData terminates: every iteration that does not end the scan
\* leaves the cursor at least 2 further than it found it, the cursor never
\* goes back, and a batch of len bytes takes at most ceil(len / 2)
\* iterations.
C20_ScanTerminates ==
  Scanning =>
    /\ \A n \in 1 .. Len(visited) : CursorAfter(n) >= visited[n] + 2
    /\ Len(visited) <= (Len(gsmData) + 1) \div 2
    /\ (pc = "loop" => i <= Len(gsmData))

\* A batch of an empty record and a record that decodes, scanned to its end
\* in two iterations: the empty record moved the cursor by exactly 2.
C20_Witness ==
  /\ GsmDone
  /\ visited = << 0, 2 >>
  /\ gsmData[2] = 0
  /\ i = Len(gsmData)
  /\ ~gsmRet.thrown /\ Len(gsmRet.value) = 1

====
